---------------------------- MODULE Spec2Model ----------------------------
(***************************************************************************)
(* A model of pakdump.py: the LZSS ring-buffer decompressor (uncompress),  *)
(* the PVR texture decoder (pvr_decode with morton, the three pixel        *)
(* unpackers, vq_decode and morton_decode) and the archive driver (main).  *)
(* Byte strings are sequences of 0..255, 1-indexed: Python's data[p] is    *)
(* data[p + 1] here.                                                       *)
(***************************************************************************)
EXTENDS Integers, Sequences, FiniteSets, TLC

VARIABLES
    \* uncompress (src/pakdump.py:196-244)
    data,     \* the payload handed to uncompress
    extra,    \* the bias argument as passed by the caller (before extra += 1)
    ring,     \* the 4096-slot history buffer, indexed 0..SIZE-1
    r,        \* the ring write cursor
    out,      \* the bytes emitted so far
    pos,      \* the payload cursor
    ctl,      \* the control word with its sentinel bits
    upc,      \* "idle" | "loop" | "done" | "IndexError"
    \* morton (src/pakdump.py:92-101)
    mx,       \* the argument x
    my,       \* the argument y
    mcode,    \* the value returned, -1 before the call
    \* unpack1555, unpack4444, unpack565 (src/pakdump.py:104-122)
    colour,   \* the 16-bit sample
    upx,      \* the channel list returned, <<>> before the call
    ufn,      \* which unpacker ran: "none" | "1555" | "4444" | "565"
    \* pvr_decode (src/pakdump.py:11-194)
    pvr,      \* the bytes handed to pvr_decode
    ret,      \* what the call gave: [kind, val, pix, mode]
    \* main (src/pakdump.py:246-330)
    files,    \* the archive: one [pvr, uncompressed, mode, payload] per entry
    mi,       \* the entry in turn (the loop's i, counted from 1)
    written,  \* the files written so far: [entry, kind, bytes]
    mpc,      \* "idle" | "loop" | "done" | "aborted"
    err       \* the exception that left main: [what, line]

lzvars == <<data, extra, ring, r, out, pos, ctl, upc>>

mvars == <<mx, my, mcode>>

uvars == <<colour, upx, ufn>>

pvars == <<pvr, ret>>

dvars == <<files, mi, written, mpc, err>>

vars == <<lzvars, mvars, uvars, pvars, dvars>>

\* Each specification below runs one part of the program; the variables of
\* the other parts stay as they are here.
NoRet == [kind |-> "none", val |-> "", pix |-> <<>>, mode |-> ""]

LzIdle ==
    /\ data = <<>> /\ extra = 0 /\ ring = <<>> /\ r = 0 /\ out = <<>>
    /\ pos = 0 /\ ctl = 0 /\ upc = "idle"

MortonIdle == mx = 0 /\ my = 0 /\ mcode = -1

UnpackIdle == colour = 0 /\ upx = <<>> /\ ufn = "none"

PvrIdle == pvr = <<>> /\ ret = NoRet

MainIdle ==
    /\ files = <<>> /\ mi = 0 /\ written = <<>> /\ mpc = "idle"
    /\ err = [what |-> "", line |-> 0]

----------------------------------------------------------------------------
(* Integer bit operations on naturals, as Python computes them.            *)

RECURSIVE BitAnd(_, _)
BitAnd(a, b) ==
    IF a = 0 \/ b = 0 THEN 0
    ELSE (a % 2) * (b % 2) + 2 * BitAnd(a \div 2, b \div 2)

RECURSIVE BitOr(_, _)
BitOr(a, b) ==
    IF a = 0 THEN b
    ELSE IF b = 0 THEN a
    ELSE (IF a % 2 = 1 \/ b % 2 = 1 THEN 1 ELSE 0) + 2 * BitOr(a \div 2, b \div 2)

RECURSIVE Pow2(_)
Pow2(k) == IF k = 0 THEN 1 ELSE 2 * Pow2(k - 1)

Shl(a, k) == a * Pow2(k)

Shr(a, k) == a \div Pow2(k)

Byte == 0..255

----------------------------------------------------------------------------
(* uncompress                                                              *)

SIZE == 4096

MASK == SIZE - 1

\* n & MASK for any integer n, negative ones included: Python's & works on
\* the infinite two's complement, so the low 12 bits are n modulo SIZE.
AndMask(n) == n % (MASK + 1)

\* Lines 209-214: refill the control word when its sentinel bit 8 is clear.
\* The inner "pos >= len (data)" test cannot succeed under the loop guard.
Refill(c, p, d) ==
    IF BitAnd(c, 256) = 0
    THEN IF p >= Len(d)
         THEN [ctl |-> c, pos |-> p, brk |-> TRUE]
         ELSE [ctl |-> BitOr(d[p + 1], 65280), pos |-> p + 1, brk |-> FALSE]
    ELSE [ctl |-> c, pos |-> p, brk |-> FALSE]

\* CopyLoop with every byte read from the ring as it stood before the copy
\* began (a block copy that does not see its own output).
RECURSIVE CopyStaleFrom(_, _, _, _, _, _, _)
CopyStaleFrom(orig, rg, rr, o, offset, i, length) ==
    IF i >= length THEN [ring |-> rg, r |-> rr, out |-> o]
    ELSE LET c == orig[AndMask(offset + i)]
         IN  CopyStaleFrom(orig, [rg EXCEPT ![AndMask(rr)] = c], rr + 1,
                           Append(o, c), offset, i + 1, length)

CopyLoopStale(rg, rr, o, offset, i, length) ==
    CopyStaleFrom(rg, rg, rr, o, offset, i, length)

\* CopyLoop without the store into the ring (line 237 left out).
RECURSIVE CopyLoopNoStore(_, _, _, _, _, _)
CopyLoopNoStore(rg, rr, o, offset, i, length) ==
    IF i >= length THEN [ring |-> rg, r |-> rr, out |-> o]
    ELSE CopyLoopNoStore(rg, rr + 1, Append(o, rg[AndMask(offset + i)]),
                         offset, i + 1, length)

\* Lines 234-238: the copy loop of a back-reference, one byte at a time, each
\* read seeing the ring as the previous writes of this copy left it.
RECURSIVE CopyLoop(_, _, _, _, _, _)
CopyLoop(rg, rr, o, offset, i, length) ==
    IF i >= length THEN [ring |-> rg, r |-> rr, out |-> o]
    ELSE LET c == rg[AndMask(offset + i)]
         IN  CopyLoop([rg EXCEPT ![AndMask(rr)] = c], rr + 1, Append(o, c),
                      offset, i + 1, length)

\* Line 200 and line 231: the match length of a back-reference word.
MatchLength(word, ex) == BitAnd(word, 15) + (ex + 1)

\* Lines 208-242: one iteration of the while loop on the state
\* s = [ring, r, out, pos, ctl], for payload d and bias argument ex.
\* kind names how the iteration ended.
LzIter(s, d, ex) ==
    LET rf == Refill(s.ctl, s.pos, d)
        p  == rf.pos
        c  == rf.ctl
    IN  IF rf.brk
        THEN [s EXCEPT !.kind = "break"]
        ELSE IF BitAnd(c, 1) = 1
        THEN IF p >= Len(d)
             THEN [s EXCEPT !.ctl = c, !.pos = p, !.kind = "IndexError"]
             ELSE [ring |-> [s.ring EXCEPT ![AndMask(s.r)] = d[p + 1]],
                   r    |-> s.r + 1,
                   out  |-> Append(s.out, d[p + 1]),
                   pos  |-> p + 1,
                   ctl  |-> Shr(c, 1),
                   kind |-> "literal"]
        ELSE IF p >= Len(d)
             THEN [s EXCEPT !.ctl = c, !.pos = p, !.kind = "break"]
             ELSE IF p + 1 >= Len(d)
             THEN [s EXCEPT !.ctl = c, !.pos = p, !.kind = "IndexError"]
             ELSE LET b0     == d[p + 1]
                      b1     == d[p + 2]
                      word   == BitOr(Shl(b1, 8), b0)
                      base   == BitAnd(Shr(word, 4), 4095)
                      length == MatchLength(word, ex)
                      offset == s.r - (base + 1)
                      cp     == CopyLoop(s.ring, s.r, s.out, offset, 0, length)
                  IN  [ring |-> cp.ring,
                       r    |-> cp.r,
                       out  |-> cp.out,
                       pos  |-> p + 2,
                       ctl  |-> Shr(c, 1),
                       kind |-> "backref"]

\* Lines 201-207: the state uncompress starts its loop in.
LzStart ==
    [ring |-> [k \in 0..(SIZE - 1) |-> 0], r |-> 0, out |-> <<>>,
     pos |-> 0, ctl |-> 0, kind |-> "start"]

LzCur == [ring |-> ring, r |-> r, out |-> out, pos |-> pos, ctl |-> ctl,
          kind |-> "cur"]

\* The whole call: the loop run to its end. Returns the final loop state;
\* kind is "return" (line 244) or "IndexError".
RECURSIVE LzRun(_, _, _)
LzRun(s, d, ex) ==
    IF s.pos >= Len(d) THEN [s EXCEPT !.kind = "return"]
    ELSE LET n == LzIter(s, d, ex)
         IN  IF n.kind = "break" THEN [n EXCEPT !.kind = "return"]
             ELSE IF n.kind = "IndexError" THEN n
             ELSE LzRun(n, d, ex)

uncompress(d, ex) == LzRun(LzStart, d, ex)

----------------------------------------------------------------------------
(* The payloads uncompress is run on.                                      *)

MaxLen == 3

LongGroups == 35

LzBytes == {0, 1, 18, 255}

RECURSIVE SeqsUpTo(_, _)
SeqsUpTo(S, n) ==
    IF n = 0 THEN {<<>>}
    ELSE LET shorter == SeqsUpTo(S, n - 1)
         IN  shorter \cup {Append(q, b) : q \in shorter, b \in S}

\* A payload long enough to carry the write cursor past the ring's end:
\* LongGroups groups of 16 bytes, each a control byte 1 (one literal, then
\* seven back-references), the literal, and seven words of length nibble 15
\* whose base is the group's number modulo 16.
LongPayload ==
    [p \in 1..(16 * LongGroups) |->
        LET g == (p - 1) \div 16
            q == (p - 1) % 16
        IN  IF q = 0 THEN 1
            ELSE IF q = 1 THEN (37 * g + 1) % 256
            ELSE IF q % 2 = 0 THEN 15 + 16 * (g % 16)
            ELSE 0]

LzPayloads == SeqsUpTo(LzBytes, MaxLen) \cup {LongPayload}

Extras == {1, 2}

LzInit ==
    /\ MortonIdle /\ UnpackIdle /\ PvrIdle /\ MainIdle
    /\ data \in LzPayloads
    /\ extra \in Extras
    /\ ring = LzStart.ring
    /\ r = 0
    /\ out = <<>>
    /\ pos = 0
    /\ ctl = 0
    /\ upc = "loop"

LzApply(n) ==
    /\ ring' = n.ring
    /\ r' = n.r
    /\ out' = n.out
    /\ pos' = n.pos
    /\ ctl' = n.ctl
    /\ UNCHANGED <<data, extra, mvars, uvars, pvars, dvars>>

\* Line 208 false: the loop ends and line 244 returns.
LzReturn ==
    /\ upc = "loop"
    /\ pos >= Len(data)
    /\ upc' = "done"
    /\ UNCHANGED <<data, extra, ring, r, out, pos, ctl, mvars, uvars, pvars, dvars>>

\* Lines 218-223: a literal byte.
LzLiteral ==
    /\ upc = "loop"
    /\ pos < Len(data)
    /\ LET n == LzIter(LzCur, data, extra)
       IN  /\ n.kind = "literal"
           /\ LzApply(n)
           /\ upc' = "loop"

\* Lines 224-240: a back-reference.
LzBackref ==
    /\ upc = "loop"
    /\ pos < Len(data)
    /\ LET n == LzIter(LzCur, data, extra)
       IN  /\ n.kind = "backref"
           /\ LzApply(n)
           /\ upc' = "loop"

\* Lines 225-226: the payload ended right after a control byte whose next
\* bit is 0.
LzBreak ==
    /\ upc = "loop"
    /\ pos < Len(data)
    /\ LET n == LzIter(LzCur, data, extra)
       IN  /\ n.kind = "break"
           /\ LzApply(n)
           /\ upc' = "done"

\* Line 219 or line 228: data[pos] or data[pos + 1] past the end of the
\* payload raises IndexError out of uncompress.
LzIndexError ==
    /\ upc = "loop"
    /\ pos < Len(data)
    /\ LET n == LzIter(LzCur, data, extra)
       IN  /\ n.kind = "IndexError"
           /\ LzApply(n)
           /\ upc' = "IndexError"

LzNext == LzReturn \/ LzLiteral \/ LzBackref \/ LzBreak \/ LzIndexError

SpecLz == LzInit /\ [][LzNext]_vars

----------------------------------------------------------------------------
(* Claims about uncompress, checked under SpecLz.                          *)

\* C2: uncompress ends cleanly on every finite payload: no step reads a
\* payload byte at or past len(data), so the call never ends in IndexError.
C2_NoReadPastEnd == upc # "IndexError"

\* The step just taken is a back-reference: the control bit in turn is 0
\* and the payload cursor moved over a two-byte word.
BackrefStepTaken ==
    /\ upc = "loop" /\ upc' = "loop" /\ pos < Len(data)
    /\ LET rf == Refill(ctl, pos, data)
       IN  rf.ctl % 2 = 0 /\ pos' = rf.pos + 2

\* What a back-reference step does, for a length of
\* (word & 0xF) + extra + adj bytes.
BackrefPost(adj) ==
    LET p0   == pos' - 2
        word == data[p0 + 1] + 256 * data[p0 + 2]
        len  == (word % 16) + extra + adj
        dist == (word \div 16) + 1
        n    == Len(out)
        \* the byte of this copy that last wrote ring slot s before its
        \* byte number i, or -1
        Writer(s, i) == IF \E k \in 0..(i - 1) : (r + k) % 4096 = s
                        THEN CHOOSE k \in 0..(i - 1) : (r + k) % 4096 = s
                        ELSE -1
        SlotAt(s, i) == IF Writer(s, i) = -1 THEN ring[s]
                        ELSE out'[n + 1 + Writer(s, i)]
    IN  /\ Len(out') = n + len
        /\ SubSeq(out', 1, n) = out
        /\ r' = r + len
        /\ \A i \in 0..(len - 1) :
              out'[n + 1 + i] = SlotAt((r - dist + i) % 4096, i)
        /\ \A k \in 0..(len - 1) : ring'[(r + k) % 4096] = out'[n + 1 + k]
        /\ \A s \in 0..4095 : (s - r) % 4096 >= len => ring'[s] = ring[s]
        /\ pos' \in {pos + 2, pos + 3}

\* C9 (as amended): a back-reference step appends exactly
\* (word & 0xF) + bias + 1 bytes, bias being the argument passed to
\* uncompress; byte i is ring[(r - ((word >> 4) + 1) + i) & 4095] as the
\* ring stands after the previous i bytes of the copy, is stored at
\* ring[(r + i) & 4095], r advances by the length and the cursor by 2.
C9_BackrefStep == [][BackrefStepTaken => BackrefPost(1)]_vars

\* C9 (as claimed): the same with a length of exactly (word & 0xF) + bias.
C9_BackrefStepAsClaimed == [][BackrefStepTaken => BackrefPost(0)]_vars

\* A back-reference that overlaps its own output has run: a literal other
\* than 0 came first and more bytes are out than payload bytes were read.
C9_Witness ==
    /\ upc = "loop" /\ Len(out) > pos /\ Len(out) >= 3
    /\ out[1] # 0 /\ out[Len(out)] = out[1] /\ out[2] = out[1]

RingWindow ==
    /\ r = Len(out)
    /\ \A k \in 0..(r - 1) : k >= r - 4096 => ring[k % 4096] = out[k + 1]
    /\ \A s \in 0..4095 : s >= r => ring[s] = 0

\* C10: at every iteration boundary r = len(out) and never decreases, the
\* ring holds the last 4096 bytes of the output (ring[k & 4095] = out[k] for
\* max(0, r - 4096) <= k < r) and every slot not yet written is 0.
C10_RingIsOutputWindow == []RingWindow /\ [][r' >= r]_vars

\* The cursor has wrapped round the ring with bytes other than 0 emitted.
C10_Witness ==
    /\ upc = "done" /\ r > 4096
    /\ \E k \in 1..Len(out) : out[k] # 0 /\ k > 4096

----------------------------------------------------------------------------
(* morton                                                                  *)

\* Lines 93-100: one coordinate's bits spread to the even positions.
Spread(v) ==
    LET v8 == BitAnd(BitOr(v, Shl(v, 8)), 16711935)      \* 0x00ff00ff
        v4 == BitAnd(BitOr(v8, Shl(v8, 4)), 252645135)   \* 0x0f0f0f0f
        v2 == BitAnd(BitOr(v4, Shl(v4, 2)), 858993459)   \* 0x33333333
    IN  BitAnd(BitOr(v2, Shl(v2, 1)), 1431655765)        \* 0x55555555

\* morton with y left in the even positions (the final shift left out).
mortonNoShift(x, y) == BitOr(Spread(x), Spread(y))

\* Lines 92-101.
morton(x, y) == BitOr(Spread(x), Shl(Spread(y), 1))

MortonBits == 4

\* Coordinates below 0x8000: every small one, every single bit, and three
\* dense patterns (0x7fff, 0x5555, 0x2aaa).
MortonSamples ==
    (0..(Pow2(MortonBits) - 1)) \cup {Pow2(k) : k \in 0..14}
        \cup {32767, 21845, 10922}

MortonInit ==
    /\ LzIdle /\ UnpackIdle /\ PvrIdle /\ MainIdle
    /\ mx \in MortonSamples
    /\ my \in MortonSamples
    /\ mcode = -1

MortonCall ==
    /\ mcode = -1
    /\ mcode' = morton(mx, my)
    /\ UNCHANGED <<mx, my, lzvars, uvars, pvars, dvars>>

MortonNext == MortonCall

SpecMorton == MortonInit /\ [][MortonNext]_vars

----------------------------------------------------------------------------
(* Claims about morton, checked under SpecMorton.                          *)

Bit(n, k) == (n \div Pow2(k)) % 2

RECURSIVE EvenBits(_, _)
EvenBits(n, k) ==
    IF k = 0 THEN 0 ELSE (n % 2) + 2 * EvenBits(n \div 4, k - 1)

\* C7: for x, y < 2^15 morton is injective (x and y are read back from the
\* even and the odd bits of the code), bit 2k of morton(x, y) is bit k of
\* x and bit 2k+1 is bit k of y, so morton(x, 0) has only even bits set and
\* morton(0, y) only odd ones.
C7_MortonBijection ==
    mcode # -1 =>
        /\ mcode >= 0 /\ mcode < Pow2(30)
        /\ \A k \in 0..14 : /\ Bit(mcode, 2 * k) = Bit(mx, k)
                             /\ Bit(mcode, 2 * k + 1) = Bit(my, k)
        /\ EvenBits(mcode, 15) = mx
        /\ EvenBits(mcode \div 2, 15) = my
        /\ (my = 0 => \A k \in 0..14 : Bit(mcode, 2 * k + 1) = 0)
        /\ (mx = 0 => \A k \in 0..14 : Bit(mcode, 2 * k) = 0)

\* morton returned for two coordinates that both have high and low bits set.
C7_Witness == mcode # -1 /\ mx = 21845 /\ my = 32767

----------------------------------------------------------------------------
(* The pixel unpackers                                                     *)

MantBits == 24

HalfMant == Pow2(MantBits - 1)

\* The least n * 2^e (e >= 0) whose quotient by d has MantBits bits, with
\* the 2^e it was scaled by.
RECURSIVE ScaleUp(_, _, _)
ScaleUp(num, d, pw) ==
    IF num \div d >= HalfMant THEN [num |-> num, pw |-> pw]
    ELSE ScaleUp(2 * num, d, 2 * pw)

\* int (n/d) with the quotient rounded to the nearest integer instead of
\* truncated.
RoundDivFloat(n, d) == (2 * n + d) \div (2 * d)

\* int (n/float (d)) for integers n >= 0, d > 0: Python divides in binary
\* floating point, rounding the quotient to the nearest value of the
\* significand (ties to even), and int () truncates. The significand is
\* modelled with MantBits bits instead of the double's 53: a shorter one
\* rounds more coarsely, so it crosses an integer wherever the double does.
TruncDivFloat(n, d) ==
    IF n = 0 THEN 0
    ELSE LET sc  == ScaleUp(n, d, 1)
             q   == sc.num \div d
             rem == sc.num % d
             m   == IF 2 * rem > d \/ (2 * rem = d /\ q % 2 = 1)
                    THEN q + 1 ELSE q
         IN  m \div sc.pw

\* Lines 104-109.
unpack1555(c) ==
    LET a  == 255 * BitAnd(Shr(c, 15), 31)
        rr == TruncDivFloat(255 * BitAnd(Shr(c, 10), 31), 31)
        g  == TruncDivFloat(255 * BitAnd(Shr(c, 5), 31), 31)
        b  == TruncDivFloat(255 * BitAnd(c, 31), 31)
    IN  <<rr, g, b, a>>

\* Lines 111-116.
unpack4444(c) ==
    LET a  == TruncDivFloat(255 * BitAnd(Shr(c, 12), 15), 15)
        rr == TruncDivFloat(255 * BitAnd(Shr(c, 8), 15), 15)
        g  == TruncDivFloat(255 * BitAnd(Shr(c, 4), 15), 15)
        b  == TruncDivFloat(255 * BitAnd(c, 15), 15)
    IN  <<rr, g, b, a>>

\* Lines 118-122.
unpack565(c) ==
    LET rr == TruncDivFloat(255 * BitAnd(Shr(c, 11), 31), 31)
        g  == TruncDivFloat(255 * BitAnd(Shr(c, 5), 63), 63)
        b  == TruncDivFloat(255 * BitAnd(c, 31), 31)
    IN  <<rr, g, b>>

\* The 16-bit samples the unpackers are run on: all of them.
Colours == 0..65535

UnpackInit ==
    /\ LzIdle /\ MortonIdle /\ PvrIdle /\ MainIdle
    /\ colour \in Colours
    /\ upx = <<>>
    /\ ufn = "none"

Unpack1555Call ==
    /\ ufn = "none"
    /\ upx' = unpack1555(colour)
    /\ ufn' = "1555"
    /\ UNCHANGED <<colour, lzvars, mvars, pvars, dvars>>

Unpack4444Call ==
    /\ ufn = "none"
    /\ upx' = unpack4444(colour)
    /\ ufn' = "4444"
    /\ UNCHANGED <<colour, lzvars, mvars, pvars, dvars>>

Unpack565Call ==
    /\ ufn = "none"
    /\ upx' = unpack565(colour)
    /\ ufn' = "565"
    /\ UNCHANGED <<colour, lzvars, mvars, pvars, dvars>>

UnpackNext == Unpack1555Call \/ Unpack4444Call \/ Unpack565Call

SpecUnpack == UnpackInit /\ [][UnpackNext]_vars

----------------------------------------------------------------------------
(* Claims about the unpackers, checked under SpecUnpack.                   *)

\* The bit field of c that is wide bits wide and starts at bit lo.
Field(c, lo, wide) == (c \div Pow2(lo)) % Pow2(wide)

Floor255(v, max) == (255 * v) \div max

\* C8: every channel is floor(255 * v / max) of its own bit field v
\* (max = 31, 15 or 63) and of nothing else, the 1555 alpha is 255 times
\* bit 15, every channel lies in 0..255, and the samples 0 and 0xFFFF
\* unpack to all 0 and all 255.
C8_UnpackChannels ==
    /\ ufn = "1555" =>
          upx = <<Floor255(Field(colour, 10, 5), 31),
                  Floor255(Field(colour, 5, 5), 31),
                  Floor255(Field(colour, 0, 5), 31),
                  255 * Field(colour, 15, 1)>>
    /\ ufn = "4444" =>
          upx = <<Floor255(Field(colour, 8, 4), 15),
                  Floor255(Field(colour, 4, 4), 15),
                  Floor255(Field(colour, 0, 4), 15),
                  Floor255(Field(colour, 12, 4), 15)>>
    /\ ufn = "565" =>
          upx = <<Floor255(Field(colour, 11, 5), 31),
                  Floor255(Field(colour, 5, 6), 63),
                  Floor255(Field(colour, 0, 5), 31)>>
    /\ \A k \in 1..Len(upx) : upx[k] \in 0..255
    /\ (ufn = "1555" /\ colour = 0) => upx = <<0, 0, 0, 0>>
    /\ (ufn = "1555" /\ colour = 65535) => upx = <<255, 255, 255, 255>>
    /\ (ufn = "565" /\ colour = 0) => upx = <<0, 0, 0>>
    /\ (ufn = "565" /\ colour = 65535) => upx = <<255, 255, 255>>

\* A sample whose fields are neither 0 nor full has been unpacked and one
\* of its channels was cut down by the truncation (255 * 13 / 31 = 106.9).
C8_Witness == ufn = "565" /\ colour = 13 * 2048 + 40 * 32 + 30 /\ upx[1] = 106

----------------------------------------------------------------------------
(* pvr_decode                                                              *)

HEADER_SIZE == 16

CODEBOOK_SIZE == 2048

MAX_WIDTH == 32768

MAX_HEIGHT == 32768

ARGB1555 == 0

RGB565 == 1

ARGB4444 == 2

SQUARE_TWIDDLED == 1

SQUARE_TWIDDLED_MIPMAP == 2

VQ == 3

VQ_MIPMAP == 4

\* Lines 44-52 and 53-73: the lengths of the two name tables.
TYPES_LEN == 7

FMTS_LEN == 19

\* A slice bound as Python clamps it for a sequence of n items.
PyIndex(n, k) ==
    IF k < 0 THEN (IF k + n < 0 THEN 0 ELSE k + n)
    ELSE IF k > n THEN n ELSE k

\* s[a:b] of Python (a and b may be negative or past the end).
PySlice(s, a, b) ==
    LET lo == PyIndex(Len(s), a)
        hi == PyIndex(Len(s), b)
    IN  IF lo >= hi THEN <<>> ELSE SubSeq(s, lo + 1, hi)

\* The little-endian 16-bit word at byte offset k of s.
LE16At(s, k) == s[k + 1] + 256 * s[k + 2]

\* unpack ('<nH', s) for a string of 2n bytes.
U16s(s) == [k \in 1..(Len(s) \div 2) |-> LE16At(s, 2 * (k - 1))]

\* bytes.decode ('ASCII', 'ignore'): bytes that are not ASCII are dropped.
AsciiIgnore(s) == SelectSeq(s, LAMBDA b : b < 128)

PVRT == <<80, 86, 82, 84>>

\* Line 80: unpack ('<IBBHHH', data[4:HEADER_SIZE]).
ParseHeader(d) ==
    LET hb == PySlice(d, 4, HEADER_SIZE)
    IN  [total  |-> hb[1] + 256 * hb[2] + 65536 * hb[3] + 16777216 * hb[4],
         px     |-> hb[5],
         fmt    |-> hb[6],
         unk    |-> LE16At(hb, 6),
         width  |-> LE16At(hb, 8),
         height |-> LE16At(hb, 10)]

RECURSIVE Concat(_)
Concat(ss) == IF ss = <<>> THEN <<>> ELSE Head(ss) \o Concat(Tail(ss))

\* The decoder argument of vq_decode and morton_decode.
Decoder(dec, c) ==
    CASE dec = "1555" -> unpack1555(c)
      [] dec = "4444" -> unpack4444(c)
      [] dec = "565"  -> unpack565(c)

Raised(what) == [kind |-> "raise", val |-> what, pix |-> <<>>, mode |-> ""]

Str(what) == [kind |-> "str", val |-> what, pix |-> <<>>, mode |-> ""]

Grid(pix, mode) == [kind |-> "grid", val |-> "", pix |-> pix, mode |-> mode]

\* The two rows of one block with the samples taken row by row
\* (0 1 over 2 3).
VqBlockRowMajor(book, entry, dec) ==
    [row0 |-> Decoder(dec, book[entry + 1]) \o Decoder(dec, book[entry + 2]),
     row1 |-> Decoder(dec, book[entry + 3]) \o Decoder(dec, book[entry + 4])]

\* Lines 149-152: the two rows of one 2x2 block. book is 1-indexed here:
\* Python's book[entry + k] is book[entry + k + 1].
VqBlock(book, entry, dec) ==
    [row0 |-> Decoder(dec, book[entry + 1]) \o Decoder(dec, book[entry + 3]),
     row1 |-> Decoder(dec, book[entry + 2]) \o Decoder(dec, book[entry + 4])]

\* Lines 126-155.
vq_decode(raw, dec, width, height) ==
    LET tmp   == PySlice(raw, HEADER_SIZE, Len(raw))
        bytes == PySlice(tmp, 0, CODEBOOK_SIZE)
        size  == Len(raw)
        base  == (width * height) \div 4
        lut   == PySlice(raw, size - base, size)
        h2    == height \div 2
        w2    == width \div 2
    IN  IF Len(bytes) # CODEBOOK_SIZE THEN Raised("struct.error")
        ELSE IF \E i \in 0..(h2 - 1), j \in 0..(w2 - 1) :
                   morton(i, j) >= Len(lut)
        THEN Raised("IndexError")
        ELSE LET book == U16s(bytes)
                 Blk(i, j) == VqBlock(book, 4 * lut[morton(i, j) + 1], dec)
                 Row0(i) == Concat([j \in 1..w2 |-> Blk(i, j - 1).row0])
                 Row1(i) == Concat([j \in 1..w2 |-> Blk(i, j - 1).row1])
             IN  Grid([k \in 1..(2 * h2) |->
                          IF k % 2 = 1 THEN Row0((k - 1) \div 2)
                          ELSE Row1((k - 2) \div 2)], "")

\* The sample index with row and column exchanged.
TwiddleIndexTransposed(i, j) == morton(j, i)

\* Line 169: the sample of output row i, column j.
TwiddleIndex(i, j) == morton(i, j)

\* Lines 157-171.
morton_decode(raw, dec, width, height) ==
    LET size == Len(raw)
        base == width * height * 2
        mip  == PySlice(raw, size - base, size)
    IN  IF Len(mip) # 2 * width * height THEN Raised("struct.error")
        ELSE IF \E i \in 0..(height - 1), j \in 0..(width - 1) :
                   TwiddleIndex(i, j) >= width * height
        THEN Raised("IndexError")
        ELSE LET smp == U16s(mip)
             IN  Grid([i \in 1..height |->
                          Concat([j \in 1..width |->
                              Decoder(dec, smp[TwiddleIndex(i - 1, j - 1) + 1])])],
                      "")

WithMode(g, mode) == IF g.kind = "grid" THEN [g EXCEPT !.mode = mode] ELSE g

\* Lines 177-194.
Dispatch(px, fmt, raw, width, height) ==
    LET twiddled == fmt = SQUARE_TWIDDLED \/ fmt = SQUARE_TWIDDLED_MIPMAP
        vq       == fmt = VQ \/ fmt = VQ_MIPMAP
        unsupported == Str("Unsupported encoding")
    IN  IF px = ARGB1555
        THEN IF twiddled
             THEN WithMode(morton_decode(raw, "1555", width, height), "RGBA")
             ELSE IF vq
             THEN WithMode(vq_decode(raw, "1555", width, height), "RGBA")
             ELSE unsupported
        ELSE IF px = ARGB4444
        THEN IF twiddled
             THEN WithMode(morton_decode(raw, "4444", width, height), "RGBA")
             ELSE IF vq
             THEN WithMode(vq_decode(raw, "4444", width, height), "RGBA")
             ELSE unsupported
        ELSE IF px = RGB565
        THEN IF twiddled
             THEN WithMode(morton_decode(raw, "565", width, height), "RGB")
             ELSE IF vq
             THEN WithMode(vq_decode(raw, "565", width, height), "RGB")
             ELSE unsupported
        ELSE unsupported

\* Lines 76-194: the whole call.
pvr_decode(d) ==
    IF AsciiIgnore(PySlice(d, 0, 4)) # PVRT
    THEN Str("Not a PVR texture!")
    ELSE IF Len(PySlice(d, 4, HEADER_SIZE)) # 12
    THEN Raised("struct.error")
    ELSE LET h   == ParseHeader(d)
             raw == PySlice(d, 0, 8 + h.total)
         IN  IF h.px >= TYPES_LEN \/ h.fmt >= FMTS_LEN
             THEN Raised("IndexError")
             ELSE IF ~(h.width < MAX_WIDTH) \/ ~(h.height < MAX_HEIGHT)
             THEN Raised("Exception")
             ELSE Dispatch(h.px, h.fmt, raw, h.width, h.height)

----------------------------------------------------------------------------
(* The textures pvr_decode is run on.                                      *)

MaxDim == 4

LE16Bytes(v) == <<v % 256, v \div 256>>

LE32Bytes(v) ==
    <<v % 256, (v \div 256) % 256, (v \div 65536) % 256, v \div 16777216>>

TexBody(n, seed) == [p \in 1..n |-> (seed + 37 * p + p * p) % 256]

\* The bytes after the header that a texture of this format and size
\* carries: for the mipmap formats six bytes of smaller levels first, for
\* the VQ formats the codebook and the padding byte.
BodyLen(fmt, w, h) ==
    IF w >= MAX_WIDTH \/ h >= MAX_HEIGHT THEN 0
    ELSE (IF fmt \in {SQUARE_TWIDDLED_MIPMAP, VQ_MIPMAP} THEN 6 ELSE 0)
         + (IF fmt \in {VQ, VQ_MIPMAP}
            THEN CODEBOOK_SIZE + 1 + (w * h) \div 4
            ELSE 2 * w * h)

\* A texture file: tag, header and body, its total field cut bytes short of
\* what follows it.
MakeTex(tag, px, fmt, w, h, cut, seed) ==
    LET n     == BodyLen(fmt, w, h)
        total == IF HEADER_SIZE + n - 8 - cut < 0 THEN 0
                 ELSE HEADER_SIZE + n - 8 - cut
    IN  tag \o LE32Bytes(total) \o <<px, fmt>> \o LE16Bytes(0)
            \o LE16Bytes(w) \o LE16Bytes(h) \o TexBody(n, seed)

PxValues == (0..8) \cup {255}

FmtValues == (0..19) \cup {255}

Cuts == {0, 1, 20}

PvrInputs ==
    {MakeTex(PVRT, px, fmt, d[1], d[2], 0, 1) :
        px \in PxValues, fmt \in FmtValues,
        d \in {<<2, 2>>, <<MAX_WIDTH, 2>>, <<2, MAX_HEIGHT>>}}
    \cup
    {MakeTex(PVRT, px, fmt, w, h, cut, 3) :
        px \in {ARGB1555, RGB565, ARGB4444},
        fmt \in {SQUARE_TWIDDLED, SQUARE_TWIDDLED_MIPMAP, VQ, VQ_MIPMAP},
        w \in 0..MaxDim, h \in 0..MaxDim, cut \in Cuts}
    \cup
    {MakeTex(tag, ARGB1555, SQUARE_TWIDDLED, 2, 2, 0, 1) :
        tag \in {<<71, 66, 73, 88>>, <<80, 86, 82, 255>>, <<80, 255, 86, 82>>}}
    \cup {<<>>, PVRT, PVRT \o <<0, 0, 0, 0>>}

PvrInit ==
    /\ LzIdle /\ MortonIdle /\ UnpackIdle /\ MainIdle
    /\ pvr \in PvrInputs
    /\ ret = NoRet

PvrDecodeCall ==
    /\ ret = NoRet
    /\ ret' = pvr_decode(pvr)
    /\ UNCHANGED <<pvr, lzvars, mvars, uvars, dvars>>

PvrNext == PvrDecodeCall

SpecPvr == PvrInit /\ [][PvrNext]_vars

----------------------------------------------------------------------------
(* Claims about pvr_decode, checked under SpecPvr.                         *)

\* The input carries the PVRT tag and a whole header.
TexTagged == Len(pvr) >= 16 /\ SubSeq(pvr, 1, 4) = PVRT

TexPx == pvr[9]

TexFmt == pvr[10]

TexWidth == pvr[13] + 256 * pvr[14]

TexHeight == pvr[15] + 256 * pvr[16]

TexTotal == pvr[5] + 256 * pvr[6] + 65536 * pvr[7] + 16777216 * pvr[8]

\* The payload: the input up to the 8 + total bytes its header counts.
TexPayload ==
    IF 8 + TexTotal >= Len(pvr) THEN pvr ELSE SubSeq(pvr, 1, 8 + TexTotal)

\* The byte at offset k (from 0) of the payload.
PayByte(k) == TexPayload[k + 1]

PayWord(k) == PayByte(k) + 256 * PayByte(k + 1)

TexChannels == IF TexPx = RGB565 THEN 3 ELSE 4

TexUnpack(c) ==
    IF TexPx = ARGB1555 THEN unpack1555(c)
    ELSE IF TexPx = ARGB4444 THEN unpack4444(c)
    ELSE unpack565(c)

\* Pixel j (from 0) of a row of the grid.
PixelAt(row, j) ==
    SubSeq(row, TexChannels * j + 1, TexChannels * j + TexChannels)

SupportedPair ==
    /\ TexPx \in {ARGB1555, ARGB4444, RGB565}
    /\ TexFmt \in {SQUARE_TWIDDLED, SQUARE_TWIDDLED_MIPMAP, VQ, VQ_MIPMAP}

\* C3: a PVRT header whose (pixel_format, encoding_format) pair is not one
\* of the supported ones gets the 'Unsupported encoding' result: pvr_decode
\* never raises and never returns a grid for it.
C3_DispatchComplete ==
    (/\ ret.kind # "none" /\ TexTagged /\ ~SupportedPair
     /\ TexWidth < 32768 /\ TexHeight < 32768)
    => (ret.kind = "str" /\ ret.val = "Unsupported encoding")

\* vq_decode ran and returned a grid.
VqDecoded ==
    /\ ret.kind = "grid" /\ TexTagged
    /\ TexFmt \in {VQ, VQ_MIPMAP}

\* Block (i, j) of the grid is codebook entry 4 * lut[morton(i, j)], its
\* samples 0..3 at top-left, bottom-left, top-right, bottom-right.
VqBlocksFromCodebook ==
    LET w == TexWidth
        h == TexHeight
        lutAt(k)  == PayByte(Len(TexPayload) - (w * h) \div 4 + k)
        bookAt(k) == PayWord(16 + 2 * k)
    IN  \A i \in 0..(h \div 2 - 1), j \in 0..(w \div 2 - 1) :
            LET e == 4 * lutAt(morton(i, j))
            IN  /\ PixelAt(ret.pix[2 * i + 1], 2 * j) = TexUnpack(bookAt(e))
                /\ PixelAt(ret.pix[2 * i + 2], 2 * j) = TexUnpack(bookAt(e + 1))
                /\ PixelAt(ret.pix[2 * i + 1], 2 * j + 1) = TexUnpack(bookAt(e + 2))
                /\ PixelAt(ret.pix[2 * i + 2], 2 * j + 1) = TexUnpack(bookAt(e + 3))

GridShape(rows, cols) ==
    /\ Len(ret.pix) = rows
    /\ \A k \in 1..Len(ret.pix) : Len(ret.pix[k]) = TexChannels * cols

\* C5 (as amended): the grid vq_decode returns has 2 * floor(height / 2)
\* rows of 2 * floor(width / 2) pixels (height rows of width pixels when
\* both are even), and block (i, j) is codebook entry 4 * lut[morton(i, j)]
\* with sample 0 top-left, 1 bottom-left, 2 top-right, 3 bottom-right.
C5_VqBlockShape ==
    VqDecoded =>
        /\ GridShape(2 * (TexHeight \div 2), 2 * (TexWidth \div 2))
        /\ VqBlocksFromCodebook

\* C5 (as claimed): the grid has exactly height rows of exactly width
\* pixels, with the same blocks.
C5_VqBlockShapeAsClaimed ==
    VqDecoded => (GridShape(TexHeight, TexWidth) /\ VqBlocksFromCodebook)

\* A 4x4 VQ texture with mipmaps was decoded: four blocks, two of them from
\* different codebook entries.
C5_Witness ==
    /\ VqDecoded /\ TexWidth = 4 /\ TexHeight = 4 /\ TexFmt = VQ_MIPMAP
    /\ PixelAt(ret.pix[1], 0) # PixelAt(ret.pix[1], 2)

\* morton_decode was called: a supported pixel format in a twiddled format,
\* with sizes in range.
TwiddledCalled ==
    /\ ret.kind # "none" /\ TexTagged
    /\ TexPx \in {ARGB1555, ARGB4444, RGB565}
    /\ TexFmt \in {SQUARE_TWIDDLED, SQUARE_TWIDDLED_MIPMAP}
    /\ TexWidth < 32768 /\ TexHeight < 32768
    /\ Len(TexPayload) >= 2 * TexWidth * TexHeight

\* The grid is the Morton permutation of the last width * height words of
\* the payload, every index in range and every sample used exactly once.
MortonPermutation ==
    LET w == TexWidth
        h == TexHeight
        smpAt(k) == PayWord(Len(TexPayload) - 2 * w * h + 2 * k)
    IN  /\ \A i \in 0..(h - 1), j \in 0..(w - 1) :
              morton(i, j) \in 0..(w * h - 1)
        /\ ret.kind = "grid"
        /\ GridShape(h, w)
        /\ \A i \in 0..(h - 1), j \in 0..(w - 1) :
              PixelAt(ret.pix[i + 1], j) = TexUnpack(smpAt(morton(i, j)))
        /\ \A k \in 0..(w * h - 1) :
              Cardinality({ij \in (0..(h - 1)) \X (0..(w - 1)) :
                              morton(ij[1], ij[2]) = k}) = 1

SquarePow2 ==
    TexWidth = TexHeight /\ TexWidth \in {Pow2(k) : k \in 0..14}

----------------------------------------------------------------------------
(* main: the loop over the archive's entries (lines 288-330)               *)

MODE_RAW == 0

MODE_UNK == 1

MODE_LZSS == 2

\* Line 304: the length of MODES.
MODES_LEN == 3

\* A length check that lets data shorter than declared through.
LengthAtMost(n, uncompressed) == n <= uncompressed

\* Line 310: the condition verify is given.
LengthVerified(n, uncompressed) == n = uncompressed

Raise(what, line) == [kind |-> "raise", what |-> what, line |-> line]

Loaded(bytes) == [kind |-> "data", bytes |-> bytes]

\* Line 310: verify on what uncompress returned.
CheckLength(u, uncompressed) ==
    IF u.kind = "IndexError" THEN Raise("IndexError", 309)
    ELSE IF ~LengthVerified(Len(u.out), uncompressed)
    THEN Raise("Exception", 310)
    ELSE Loaded(u.out)

\* Lines 303-312: what an entry's header and payload load as, or the
\* exception that ends the run. Line 312 is never reached: a mode of 3 or
\* more fails at line 305 first.
LoadEntry(e) ==
    IF e.uncompressed = 0 THEN Raise("ZeroDivisionError", 303)
    ELSE IF e.mode >= MODES_LEN THEN Raise("IndexError", 305)
    ELSE IF e.mode = MODE_RAW THEN Loaded(e.payload)
    ELSE IF e.mode = MODE_UNK \/ e.mode = MODE_LZSS
    THEN CheckLength(uncompress(e.payload, e.mode), e.uncompressed)
    ELSE Raise("Exception", 312)

\* Lines 317-324: what becomes of a texture's bytes once pvr_decode gave t.
\* pngOk says whether png.from_array (...).save (...) went through; when it
\* raises, the bare except of line 321 dumps the bytes like a texture that
\* did not decode.
StoreTexture(stripped, t, pngOk) ==
    IF t.kind = "raise" THEN Raise(t.val, 317)
    ELSE IF t.kind = "str" \/ ~pngOk
    THEN [kind |-> "dump", bytes |-> stripped]
    ELSE [kind |-> "png", bytes |-> stripped]

\* Lines 315-317.
DecodeTexture(stripped, pngOk) ==
    StoreTexture(stripped, pvr_decode(stripped), pngOk)

\* Lines 314-328: what is done with the loaded data.
StoreEntry(e, ld, pngOk) ==
    IF ld.kind = "raise" THEN ld
    ELSE IF e.pvr
    THEN DecodeTexture(PySlice(ld.bytes, 16, Len(ld.bytes)), pngOk)
    ELSE [kind |-> "raw", bytes |-> ld.bytes]

\* Lines 289-330: one iteration.
ProcessEntry(e, pngOk) == StoreEntry(e, LoadEntry(e), pngOk)

----------------------------------------------------------------------------
(* The archives main is run on.                                            *)

MaxEntries == 2

\* An LZSS payload of literals only: a control byte 0xFF before every
\* eight bytes.
RECURSIVE Stored(_)
Stored(b) ==
    IF b = <<>> THEN <<>>
    ELSE IF Len(b) <= 8 THEN <<255>> \o b
    ELSE <<255>> \o SubSeq(b, 1, 8) \o Stored(SubSeq(b, 9, Len(b)))

Entry(isPvr, mode, payload, uncompressed) ==
    [pvr |-> isPvr, mode |-> mode, payload |-> payload,
     uncompressed |-> uncompressed]

\* The 16 bytes that precede the PVRT tag in a .pvr entry.
Prefix16 == [k \in 1..16 |-> k]

TexFile(tag, px, fmt, w, h) == Prefix16 \o MakeTex(tag, px, fmt, w, h, 0, 5)

TexEntry(mode, tag, px, fmt, w, h, off) ==
    LET f == TexFile(tag, px, fmt, w, h)
    IN  Entry(TRUE, mode, IF mode = MODE_RAW THEN f ELSE Stored(f),
              Len(f) + off)

EntryPool ==
    { Entry(FALSE, MODE_RAW, <<7, 8, 9>>, 3),
      Entry(FALSE, MODE_RAW, <<7, 8, 9>>, 4),
      Entry(FALSE, MODE_RAW, <<>>, 0),
      Entry(FALSE, MODE_LZSS, <<3, 65, 66>>, 2),
      Entry(FALSE, MODE_LZSS, <<3, 65, 66>>, 3),
      Entry(FALSE, MODE_UNK, <<1, 65, 0, 0>>, 3),
      Entry(FALSE, MODE_UNK, <<1, 65, 0, 0>>, 2),
      Entry(FALSE, MODE_LZSS, <<1>>, 1),
      Entry(FALSE, 3, <<7, 8, 9>>, 3),
      TexEntry(MODE_RAW, PVRT, ARGB1555, SQUARE_TWIDDLED, 2, 2, 0),
      TexEntry(MODE_RAW, PVRT, 3, SQUARE_TWIDDLED, 2, 2, 0),
      TexEntry(MODE_RAW, <<71, 66, 73, 88>>, ARGB1555, SQUARE_TWIDDLED, 2, 2, 0),
      TexEntry(MODE_RAW, PVRT, RGB565, SQUARE_TWIDDLED, MAX_WIDTH, 2, 0),
      TexEntry(MODE_RAW, PVRT, 7, SQUARE_TWIDDLED, 2, 2, 0),
      TexEntry(MODE_LZSS, PVRT, ARGB4444, SQUARE_TWIDDLED, 2, 2, 0),
      TexEntry(MODE_LZSS, PVRT, ARGB4444, SQUARE_TWIDDLED, 2, 2, 1) }

Archives == SeqsUpTo(EntryPool, MaxEntries) \ {<<>>}

NoErr == [what |-> "", line |-> 0]

MainInit ==
    /\ LzIdle /\ MortonIdle /\ UnpackIdle /\ PvrIdle
    /\ files \in Archives
    /\ mi = 1
    /\ written = <<>>
    /\ mpc = "loop"
    /\ err = NoErr

\* The entry in turn was processed with outcome o: a file of that kind is
\* written and the loop goes on.
Written(o, kind) ==
    /\ o.kind = kind
    /\ written' = Append(written, [entry |-> mi, kind |-> kind,
                                   bytes |-> o.bytes])
    /\ mi' = mi + 1
    /\ UNCHANGED <<files, mpc, err, lzvars, mvars, uvars, pvars>>

Aborted(o) ==
    /\ o.kind = "raise"
    /\ err' = [what |-> o.what, line |-> o.line]
    /\ mpc' = "aborted"
    /\ UNCHANGED <<files, mi, written, lzvars, mvars, uvars, pvars>>

\* Lines 325-328: an entry that is no texture is written as it was loaded.
MainWriteRaw ==
    /\ mpc = "loop" /\ mi <= Len(files)
    /\ Written(ProcessEntry(files[mi], TRUE), "raw")

\* Lines 317-320: a texture is decoded and saved as a PNG.
MainWritePng ==
    /\ mpc = "loop" /\ mi <= Len(files)
    /\ Written(ProcessEntry(files[mi], TRUE), "png")

\* Lines 321-324: the texture did not decode (pvr_decode returned a
\* message) or the PNG could not be saved: its bytes are dumped.
MainDump ==
    /\ mpc = "loop" /\ mi <= Len(files)
    /\ \E pngOk \in BOOLEAN : Written(ProcessEntry(files[mi], pngOk), "dump")

\* An exception raised outside the try of lines 318-324 leaves the loop
\* and main: nothing catches it.
MainRaise ==
    /\ mpc = "loop" /\ mi <= Len(files)
    /\ Aborted(ProcessEntry(files[mi], TRUE))

\* Line 288: the range is exhausted.
MainEnd ==
    /\ mpc = "loop" /\ mi > Len(files)
    /\ mpc' = "done"
    /\ UNCHANGED <<files, mi, written, err, lzvars, mvars, uvars, pvars>>

MainNext == MainWriteRaw \/ MainWritePng \/ MainDump \/ MainRaise \/ MainEnd

SpecMain == MainInit /\ [][MainNext]_vars

----------------------------------------------------------------------------
(* Claims about main, checked under SpecMain.                              *)

\* The failures of an entry's decoding: the length check of line 310, a
\* mode outside 0..2 (lines 305 and 312), a texture size out of range
\* (raised by pvr_decode, called at line 317).
DecodeFailure ==
    \/ err = [what |-> "Exception", line |-> 310]
    \/ err = [what |-> "IndexError", line |-> 305]
    \/ err = [what |-> "Exception", line |-> 312]
    \/ err = [what |-> "Exception", line |-> 317]

\* C1: a decode-level failure of entry i never ends the batch: the loop
\* goes on to entry i + 1, so the run is never over with entries unvisited.
C1_BatchSurvivesFailure ==
    ~(mpc = "aborted" /\ DecodeFailure /\ mi < Len(files))

\* What uncompress makes of entry k's payload.
Unpacked(k) == uncompress(files[k].payload, files[k].mode)

Compressed(k) == files[k].mode \in {MODE_UNK, MODE_LZSS}

LengthMatches(k) ==
    Unpacked(k).kind = "return"
    /\ Len(Unpacked(k).out) = files[k].uncompressed

LoadedLength(k) ==
    IF Compressed(k) THEN Len(Unpacked(k).out) ELSE Len(files[k].payload)

=============================================================================
